---- MODULE Spec2Model ----
(***************************************************************************)
(* A model of stacmap: explore() (src/stacmap/explore.py), the feature     *)
(* collection (src/stacmap/geojson.py), the item normaliser                *)
(* (src/stacmap/stac.py) and the colormap lookup (src/stacmap/utils.py).   *)
(*                                                                         *)
(* Encoding.  Python dictionaries are insertion-ordered, so a property bag *)
(* is a sequence of <<key, value>> pairs with distinct keys.  Property     *)
(* values are integers: numbers are 0..MaxVal, Python's None is the        *)
(* integer None, an item identifier is ItemId(i), a hex colour is          *)
(* ColorCode(n, i) (entry i of an n-colour ramp).  An Optional argument is *)
(* NoArg (Python None) or Arg(x).  Dictionaries that explore mutates in    *)
(* place live in `heap`, and records refer to them by address, so that     *)
(* aliasing between the caller's data and the working copy is visible.     *)
(*                                                                         *)
(* explore() is one synchronous call; it is split at the points where it   *)
(* touches the map (pc), each step being the only one enabled, so that the *)
(* order of the attachments can be stated.  The options tooltip, popup,    *)
(* zoom_to, tiles, attr, width, height and the *_kwds dictionaries only    *)
(* parameterise folium widgets and are not part of the state.              *)
(***************************************************************************)
EXTENDS Integers, Sequences, FiniteSets, TLC

VARIABLES
    pc,      \* position of the current explore call
    calls,   \* number of explore calls made so far
    stac,    \* the caller's input, as it was when the call was made
    args,    \* the keyword arguments of the current call
    heap,    \* address -> property dictionary
    fc,      \* STACFeatureCollection.features of the current call
    name,    \* the resolved display name
    values,  \* what fc.get_values(prop) returned
    fields,  \* the field list bound to the tooltip / popup
    m,       \* the caller's folium.Map (NoMap when the caller has none)
    lm,      \* the map created by this call (m=None) until it is returned
    err,     \* the exception the call raised ("" when none)
    kwds     \* the highlight_kwds dictionaries: the shared default, the caller's

vars == <<pc, calls, stac, args, heap, fc, name, values, fields, m, lm, err, kwds>>

---------------------------------------------------------------------------
(* Bounds of the model *)
MaxItems == 2
MaxVal == 1
MaxCalls == 2
MaxRampVal == 5
MaxRamp == 3

(* Program constants *)
None == -1
N_COLORS == 255
CustomId == 999

EmptyContainer == 0
DefaultFillOpacity == 75

HIDDEN_PROPS == {"__stacmap_color"}

NoArg == <<>>
Arg(x) == <<x>>

ItemId(i) == 100 + i

Addr == 1..(3 * MaxItems)
EmptyHeap == [a \in Addr |-> <<>>]

---------------------------------------------------------------------------
(* Python dict operations on a property bag *)
Keys(b) == {b[i][1] : i \in DOMAIN b}

Has(b, k) == k \in Keys(b)

Lookup(b, k) == b[CHOOSE i \in DOMAIN b : b[i][1] = k][2]

DictGet(b, k) == IF Has(b, k) THEN Lookup(b, k) ELSE None

DictSet(b, k, v) ==
    IF Has(b, k)
    THEN [i \in DOMAIN b |-> IF b[i][1] = k THEN <<k, v>> ELSE b[i]]
    ELSE Append(b, <<k, v>>)

(* Python's string order on the property keys of the model *)
KeyOrder == <<"__stacmap_color", "eo:cloud_cover", "gsd", "id", "view:off_nadir">>

SortedKeys(S) == SelectSeq(KeyOrder, LAMBDA k : k \in S)

(* field.split(":")[0] when the field has a colon, "" when it has none *)
Namespace(k) ==
    CASE k = "eo:cloud_cover" -> "eo"
      [] k = "view:off_nadir" -> "view"
      [] OTHER -> ""

HasColon(k) == Namespace(k) # ""

RECURSIVE SortInts(_)
SortInts(S) ==
    IF S = {} THEN <<>>
    ELSE LET lo == CHOOSE x \in S : \A y \in S : x <= y
         IN <<lo>> \o SortInts(S \ {lo})

Range(s) == {s[i] : i \in DOMAIN s}

IndexOf(s, x) == CHOOSE i \in DOMAIN s : s[i] = x

---------------------------------------------------------------------------
(* numpy and the colormap lookup *)

(* np.array(values).dtype is numeric exactly when no entry is None *)
IsNumeric(vals) == None \notin Range(vals)

(* np.unique sorts: ordering None against anything raises TypeError *)
np_unique_raises(vals) == Len(vals) >= 2 /\ None \in Range(vals)

np_unique(vals) == SortInts(Range(vals))

MinOf(vals) == CHOOSE x \in Range(vals) : \A y \in Range(vals) : x <= y

MaxOf(vals) == CHOOSE x \in Range(vals) : \A y \in Range(vals) : x >= y

ValidCmaps == {"Set1", "RdBu_r", "viridis"}

ColorCode(n, i) == 1000 * n + (i - 1)

IsColor(v) == v >= 1000

(* get_cmap raises ValueError for a name neither backend knows *)
get_cmap_raises(cmap) == cmap \notin ValidCmaps

get_cmap(cmap, n) == [i \in 1..n |-> ColorCode(n, i)]

(* Python's int() of a quotient: truncation towards zero *)
Abs(x) == IF x < 0 THEN -x ELSE x

IntTrunc(num, den) ==
    IF (num < 0) = (den < 0)
    THEN Abs(num) \div Abs(den)
    ELSE -(Abs(num) \div Abs(den))

Min2(a, b) == IF a < b THEN a ELSE b

Max2(a, b) == IF a > b THEN a ELSE b

(* The quotient is scaled by the ramp length instead of the last index *)
color_idx_scaled(feat_value, vmin, vmax, n_colors) ==
    LET raw == IF vmax # vmin
               THEN IntTrunc((feat_value - vmin) * n_colors, vmax - vmin)
               ELSE 0
    IN Max2(0, Min2(raw, n_colors - 1))

color_idx(feat_value, vmin, vmax, n_colors) ==
    LET raw == IF vmax # vmin
               THEN IntTrunc((feat_value - vmin) * (n_colors - 1), vmax - vmin)
               ELSE 0
    IN Max2(0, Min2(raw, n_colors - 1))

---------------------------------------------------------------------------
(* stac.py: normalisation *)

Kinds == {"Item", "dict", "list", "ItemCollection", "Catalog", "other"}

get_items_raises(s) == s.kind \notin {"Item", "dict", "list", "ItemCollection", "Catalog"}

(* The items come out in the reverse of the traversal order *)
get_items_reversed(s) ==
    [i \in DOMAIN s.items |->
        LET j == Len(s.items) + 1 - i
        IN [id |-> s.items[j].id,
            collection |-> s.items[j].collection,
            properties |-> j,
            assets |-> s.items[j].assets]]

(* The item dictionaries get_items returns.  A typed item's to_dict() builds a *)
(* new dictionary around the item's own properties object, a plain record is   *)
(* returned as it is: either way the properties are the caller's, at address i *)
get_items(s) ==
    [i \in DOMAIN s.items |->
        [id |-> s.items[i].id,
         collection |-> s.items[i].collection,
         properties |-> i,
         assets |-> s.items[i].assets]]

(* The caller's memory when the call is made *)
CallerHeap(s) ==
    [a \in Addr |-> IF a \in DOMAIN s.items THEN s.items[a].properties ELSE <<>>]

(* copy.copy: a new list of the same dictionaries *)
shallow_copy(h, items) == [heap |-> h, items |-> items]

(* copy.deepcopy: every dictionary is duplicated at a fresh address *)
deepcopy(h, items) ==
    [heap |-> [a \in Addr |->
                 IF a - MaxItems \in DOMAIN items
                 THEN h[items[a - MaxItems].properties]
                 ELSE h[a]],
     items |-> [i \in DOMAIN items |->
                 [items[i] EXCEPT !.properties = MaxItems + i]]]

---------------------------------------------------------------------------
(* geojson.py: the feature collection *)

STACFeature(item) ==
    [id |-> item.id, properties |-> item.properties, assets |-> item.assets]

STACFeatureCollection(items) == [i \in DOMAIN items |-> STACFeature(items[i])]

(* dict.get(key, default): the default only when the key is absent *)
dict_get(b, k, default) == IF Has(b, k) THEN Lookup(b, k) ELSE default

(* STACFeature.__init__ on an item dictionary that may lack fields or carry *)
(* them as None; a container is EmptyContainer when empty                   *)
STACFeature__init__(item) ==
    [id |-> dict_get(item, "id", None),
     properties |-> dict_get(item, "properties", EmptyContainer),
     geometry |-> dict_get(item, "geometry", EmptyContainer),
     bbox |-> dict_get(item, "bbox", EmptyContainer),
     assets |-> dict_get(item, "assets", EmptyContainer)]

Props(h, feat) == h[feat.properties]

(* A missing property reads as the number 0 instead of None *)
get_value_or_zero(h, feat, prop) ==
    IF Has(Props(h, feat), prop) THEN Lookup(Props(h, feat), prop) ELSE 0

get_value(h, feat, prop) == DictGet(Props(h, feat), prop)

get_values(h, feats, prop) == [i \in DOMAIN feats |-> get_value(h, feats[i], prop)]

AllKeys(h, feats) == UNION {Keys(Props(h, feats[i])) : i \in DOMAIN feats}

(* The reserved colour key is not filtered out *)
get_shared_props_unfiltered(h, feats) ==
    SortedKeys({k \in AllKeys(h, feats) : \A i \in DOMAIN feats : Has(Props(h, feats[i]), k)})

get_shared_props(h, feats) ==
    SortedKeys({k \in AllKeys(h, feats) :
                   /\ \A i \in DOMAIN feats : Has(Props(h, feats[i]), k)
                   /\ k \notin HIDDEN_PROPS})

get_all_props(h, feats) ==
    LET props == AllKeys(h, feats) \ HIDDEN_PROPS
    IN SortedKeys({k \in props : ~HasColon(k)}) \o SortedKeys({k \in props : HasColon(k)})

---------------------------------------------------------------------------
(* explore.py: colour assignment *)

(* Index of the first feature whose properties lack prop (0 when none) *)
FirstMissing(h, feats, prop) ==
    IF \A i \in DOMAIN feats : Has(Props(h, feats[i]), prop) THEN 0
    ELSE CHOOSE i \in DOMAIN feats :
            /\ ~Has(Props(h, feats[i]), prop)
            /\ \A j \in 1..(i - 1) : Has(Props(h, feats[j]), prop)

(* The heap after feat.properties["__stacmap_color"] = cols[i] for the features *)
(* before index stop (all of them when stop = 0)                                *)
SetColors(h, feats, stop, cols) ==
    [a \in Addr |->
        IF \E i \in DOMAIN feats : feats[i].properties = a /\ (stop = 0 \/ i < stop)
        THEN LET i == CHOOSE j \in DOMAIN feats : feats[j].properties = a
             IN DictSet(h[a], "__stacmap_color", cols[i])
        ELSE h[a]]

_set_continuous_colors(h, feats, prop, colors, vmin, vmax) ==
    SetColors(h, feats, 0,
        [i \in DOMAIN feats |->
            colors[color_idx(Lookup(Props(h, feats[i]), prop), vmin, vmax, Len(colors)) + 1]])

(* The colours are taken in the reverse of the category order *)
_set_categorical_colors_reversed(h, feats, prop, colors) ==
    LET categories == np_unique(get_values(h, feats, prop))
    IN SetColors(h, feats, FirstMissing(h, feats, prop),
        [i \in DOMAIN feats |->
            IF Has(Props(h, feats[i]), prop)
            THEN colors[Len(categories) + 1
                        - IndexOf(categories, Lookup(Props(h, feats[i]), prop))]
            ELSE None])

(* feat.properties[prop] raises KeyError at the first feature without prop *)
_set_categorical_colors_raises(h, feats, prop) == FirstMissing(h, feats, prop) # 0

_set_categorical_colors(h, feats, prop, colors) ==
    LET categories == np_unique(get_values(h, feats, prop))
    IN SetColors(h, feats, FirstMissing(h, feats, prop),
        [i \in DOMAIN feats |->
            IF Has(Props(h, feats[i]), prop)
            THEN colors[IndexOf(categories, Lookup(Props(h, feats[i]), prop))]
            ELSE None])

---------------------------------------------------------------------------
(* folium: a map is the ordered dictionary of its children and the legend  *)
(* elements attached to its HTML root                                      *)

NoMap == [children |-> <<>>, root |-> <<>>]

Child(kind, nm, items) == [kind |-> kind, name |-> nm, items |-> items]

add_to(c, map) == [map EXCEPT !.children = Append(@, c)]

_basemap ==
    [children |-> <<Child("openstreetmap", <<"", "">>, <<>>),
                   Child("fullscreen", <<"", "">>, <<>>)>>,
     root |-> <<>>]

IsLayerControl(c) == c.kind = "layer_control"

(* The layer controls of an existing map are left in place *)
pop_nothing(map) == map

(* m._children.pop(lc) for every key that starts with "layer_control" *)
pop_layer_controls(map) ==
    [map EXCEPT !.children = SelectSeq(@, LAMBDA c : ~IsLayerControl(c))]

LayerControl == Child("layer_control", <<"", "">>, <<>>)

_add_continuous_legend(vmin, vmax, caption, map) ==
    add_to(Child("color_map", caption, <<vmin, vmax>>), map)

(* zip(colors, categories): one row per pair, in that order *)
_add_categorical_legend(categories, colors, caption, map) ==
    [map EXCEPT !.root = Append(@,
        [caption |-> caption,
         rows |-> [i \in 1..Min2(Len(colors), Len(categories)) |->
                      <<categories[i], colors[i]>>]])]

_add_search_bounds(map, nm) == add_to(Child("geo_json", <<nm, " - Bounds">>, <<>>), map)

---------------------------------------------------------------------------
(* State of a call *)

DefaultArgs ==
    [name |-> NoArg, bbox |-> NoArg, intersects |-> NoArg, thumbnails |-> FALSE,
     prop |-> NoArg, cmap |-> NoArg, vmin |-> NoArg, vmax |-> NoArg,
     force_categorical |-> FALSE, fields |-> NoArg, extensions |-> NoArg,
     shared_fields |-> FALSE, add_id |-> TRUE, m |-> NoArg,
     legend |-> TRUE, layer_control |-> TRUE, style_kwds |-> <<>>,
     highlight_kwds |-> NoArg]

NoStac == [kind |-> "list", items |-> <<>>]

(* The map the call works on: the caller's when m was passed, else its own *)
CurMap == IF args.m # NoArg THEN m ELSE lm

SetMap(map) ==
    IF args.m # NoArg
    THEN m' = map /\ lm' = lm
    ELSE lm' = map /\ m' = m

(* An exception leaves explore: the map the call created is dropped, a map *)
(* the caller passed stays as the call left it                             *)
Raise(e) ==
    /\ pc' = "raised"
    /\ err' = e
    /\ lm' = NoMap

Running == pc \in {"prop", "bounds", "footprints", "thumbnails", "control"}

---------------------------------------------------------------------------
(* explore, lines 149-155: a new basemap, or the caller's map without its *)
(* layer controls                                                         *)
ResolveMap(a, map) ==
    IF a.m = NoArg
    THEN [m |-> map, lm |-> _basemap]
    ELSE [m |-> pop_layer_controls(map), lm |-> NoMap]

Outcome(p, e, feats, nm, maps) ==
    [pc |-> p, err |-> e, fc |-> feats, name |-> nm, m |-> maps.m, lm |-> maps.lm]

(* The map is resolved before the input is looked at *)
StartMapFirst(items, a, map) ==
    IF Len(items) = 0
    THEN Outcome("raised", "No STAC items were found.", <<>>, "", ResolveMap(a, map))
    ELSE IF a.name = NoArg /\ items[1].collection = ""
    THEN Outcome("raised", "KeyError", STACFeatureCollection(items), "", ResolveMap(a, map))
    ELSE Outcome("prop", "", STACFeatureCollection(items),
                 IF a.name # NoArg THEN a.name[1] ELSE items[1].collection,
                 ResolveMap(a, map))

(* explore, lines 142-155, on the copied items: the emptiness check, the *)
(* collection, the display name, the map                                 *)
Start(items, a, map) ==
    IF Len(items) = 0
    THEN Outcome("raised", "No STAC items were found.", <<>>, "", [m |-> map, lm |-> NoMap])
    ELSE IF a.name = NoArg /\ items[1].collection = ""
    THEN Outcome("raised", "KeyError", STACFeatureCollection(items), "",
                 [m |-> map, lm |-> NoMap])
    ELSE Outcome("prop", "", STACFeatureCollection(items),
                 IF a.name # NoArg THEN a.name[1] ELSE items[1].collection,
                 ResolveMap(a, map))

(* No dictionary has changed since the initial state *)
NoKwds == [shared |-> <<>>, caller |-> <<>>]

(* The dictionaries when the call is made: the caller's is the one passed (none *)
(* when highlight_kwds is omitted), the shared default is as earlier calls left *)
(* it                                                                           *)
BindKwds(k, a) ==
    [k EXCEPT !.caller = IF a.highlight_kwds # NoArg THEN a.highlight_kwds[1] ELSE <<>>]

(* The dictionary the parameter highlight_kwds is bound to *)
highlight_kwds(k, a) == IF a.highlight_kwds # NoArg THEN k.caller ELSE k.shared

(* explore, line 147: highlight_kwds["fillOpacity"] = highlight_kwds.get(..., 0.75) *)
SetFillOpacity(k, a) ==
    LET d == highlight_kwds(k, a)
        new == DictSet(d, "fillOpacity", dict_get(d, "fillOpacity", DefaultFillOpacity))
    IN IF a.highlight_kwds # NoArg
       THEN [k EXCEPT !.caller = new]
       ELSE [k EXCEPT !.shared = new]

(* explore, lines 141-155: normalise, copy, build the collection, resolve  *)
(* the name and the map                                                    *)
Call(D) ==
    /\ ~Running
    /\ calls < D.maxCalls
    /\ \E s \in D.stacs, a \in D.args :
         /\ a.m # NoArg => m # NoMap
         /\ stac' = s
         /\ args' = a
         /\ calls' = calls + 1
         /\ values' = <<>>
         /\ fields' = <<>>
         /\ IF get_items_raises(s)
            THEN /\ pc' = "raised" /\ err' = "Unsupported type"
                 /\ heap' = CallerHeap(s)
                 /\ kwds' = BindKwds(kwds, a)
                 /\ fc' = <<>> /\ name' = "" /\ m' = m /\ lm' = NoMap
            ELSE LET cp == deepcopy(CallerHeap(s), get_items(s))
                     out == Start(cp.items, a, m)
                 IN /\ heap' = cp.heap
                    /\ pc' = out.pc /\ err' = out.err
                    /\ fc' = out.fc /\ name' = out.name
                    /\ m' = out.m /\ lm' = out.lm
                    /\ kwds' = IF out.pc = "raised"
                               THEN BindKwds(kwds, a)
                               ELSE SetFillOpacity(BindKwds(kwds, a), a)

(* The caller's color and fillColor are kept when style_kwds has them *)
style_function_user_wins(a, h, feat) ==
    LET item_style == a.style_kwds
        c == Lookup(Props(h, feat), "__stacmap_color")
        with_color == IF Has(item_style, "color") THEN item_style
                      ELSE DictSet(item_style, "color", c)
    IN IF a.prop # NoArg
       THEN IF Has(with_color, "fillColor") THEN with_color
            ELSE DictSet(with_color, "fillColor", c)
       ELSE item_style

(* explore, lines 157-164: the style of one feature, a copy of style_kwds with *)
(* color and fillColor set from the reserved colour when prop is given         *)
style_function(a, h, feat) ==
    LET item_style == a.style_kwds
        c == Lookup(Props(h, feat), "__stacmap_color")
    IN IF a.prop # NoArg
       THEN DictSet(DictSet(item_style, "color", c), "fillColor", c)
       ELSE item_style

(* explore, lines 172-208: colour-coding by prop and its legend *)
PropStep ==
    /\ pc = "prop"
    /\ UNCHANGED <<kwds, calls, stac, args, fc, name, fields>>
    /\ IF args.prop = NoArg
       THEN /\ pc' = "bounds"
            /\ UNCHANGED <<heap, values, m, lm, err>>
       ELSE LET prop == args.prop[1]
                vals == get_values(heap, fc, prop)
                categorical == args.force_categorical \/ ~IsNumeric(vals)
                caption == <<name, prop>>
            IN /\ values' = vals
               /\ IF categorical
                  THEN LET cmap == IF args.cmap # NoArg THEN args.cmap[1] ELSE "Set1"
                           categories == np_unique(vals)
                           colors == get_cmap(cmap, Len(categories))
                       IN IF np_unique_raises(vals)
                          THEN Raise("TypeError") /\ UNCHANGED <<heap, m>>
                          ELSE IF get_cmap_raises(cmap)
                          THEN Raise("Unrecognized cmap") /\ UNCHANGED <<heap, m>>
                          ELSE /\ heap' = _set_categorical_colors(heap, fc, prop, colors)
                               /\ IF _set_categorical_colors_raises(heap, fc, prop)
                                  THEN Raise("KeyError") /\ UNCHANGED m
                                  ELSE /\ pc' = "bounds" /\ err' = err
                                       /\ IF args.legend
                                          THEN SetMap(_add_categorical_legend(
                                                   categories, colors, caption, CurMap))
                                          ELSE UNCHANGED <<m, lm>>
                  ELSE LET vmin == IF args.vmin # NoArg THEN args.vmin[1] ELSE MinOf(vals)
                           vmax == IF args.vmax # NoArg THEN args.vmax[1] ELSE MaxOf(vals)
                           cmap == IF args.cmap # NoArg THEN args.cmap[1] ELSE "RdBu_r"
                           colors == get_cmap(cmap, N_COLORS)
                       IN IF get_cmap_raises(cmap)
                          THEN Raise("Unrecognized cmap") /\ UNCHANGED <<heap, m>>
                          ELSE /\ heap' = _set_continuous_colors(heap, fc, prop, colors, vmin, vmax)
                               /\ pc' = "bounds" /\ err' = err
                               /\ IF args.legend
                                  THEN SetMap(_add_continuous_legend(vmin, vmax, caption, CurMap))
                                  ELSE UNCHANGED <<m, lm>>

(* bbox wins over intersects instead of the conflict being an error *)
BoundsStepBboxWins ==
    /\ pc = "bounds"
    /\ UNCHANGED <<kwds, calls, stac, args, heap, fc, name, values, fields>>
    /\ IF args.bbox # NoArg \/ args.intersects # NoArg
       THEN /\ SetMap(_add_search_bounds(CurMap, name))
            /\ pc' = "footprints" /\ err' = err
       ELSE /\ pc' = "footprints"
            /\ UNCHANGED <<m, lm, err>>

(* explore, lines 210-213: the search bounds overlay *)
BoundsStep ==
    /\ pc = "bounds"
    /\ UNCHANGED <<kwds, calls, stac, args, heap, fc, name, values, fields>>
    /\ IF args.bbox # NoArg \/ args.intersects # NoArg
       THEN IF args.bbox # NoArg /\ args.intersects # NoArg
            THEN Raise("Cannot specify both") /\ UNCHANGED m
            ELSE /\ SetMap(_add_search_bounds(CurMap, name))
                 /\ pc' = "footprints" /\ err' = err
       ELSE /\ pc' = "footprints"
            /\ UNCHANGED <<m, lm, err>>

(* explore, lines 278-297: the list of fields shown in the tooltip and popup *)
BaseFields(h, feats, a) ==
    IF a.fields # NoArg THEN a.fields[1]
    ELSE IF a.shared_fields = FALSE THEN get_all_props(h, feats)
    ELSE get_shared_props(h, feats)

(* Only the fields of an allowed namespace are kept, unprefixed fields are dropped *)
ExtensionFilterPrefixedOnly(flds, a) ==
    IF a.extensions # NoArg
    THEN SelectSeq(flds, LAMBDA f : Namespace(f) \in Range(a.extensions[1]))
    ELSE flds

ExtensionFilter(flds, a) ==
    IF a.extensions # NoArg
    THEN SelectSeq(flds, LAMBDA f : ~HasColon(f) \/ Namespace(f) \in Range(a.extensions[1]))
    ELSE flds

ResolveFields(h, feats, a) ==
    ExtensionFilter(IF a.add_id THEN <<"id">> \o BaseFields(h, feats, a)
                    ELSE BaseFields(h, feats, a), a)

(* The id is injected whether or not the feature has one *)
NeedsIdAlways(h, feats, a, i) == a.add_id

(* lines 283-288: feature.properties = {"id": feature.id, **feature.properties}, *)
(* a new dictionary (at a fresh address) for every feature without an id         *)
NeedsId(h, feats, a, i) == a.add_id /\ ~Has(Props(h, feats[i]), "id")

InjectIdFeatures(h, feats, a) ==
    [i \in DOMAIN feats |->
        IF NeedsId(h, feats, a, i)
        THEN [feats[i] EXCEPT !.properties = 2 * MaxItems + i]
        ELSE feats[i]]

InjectIdHeap(h, feats, a) ==
    [x \in Addr |->
        IF x - 2 * MaxItems \in DOMAIN feats /\ NeedsId(h, feats, a, x - 2 * MaxItems)
        THEN <<<<"id", feats[x - 2 * MaxItems].id>>>> \o Props(h, feats[x - 2 * MaxItems])
        ELSE h[x]]

(* lines 299-305: feature.properties[field] = None for every missing field *)
RECURSIVE PopulateNone(_, _)
PopulateNone(bag, flds) ==
    IF flds = <<>> THEN bag
    ELSE PopulateNone(IF Has(bag, Head(flds)) THEN bag ELSE DictSet(bag, Head(flds), None),
                      Tail(flds))

(* No missing field is populated *)
PopulateNothing(h, feats, flds, a) == h

PopulateHeap(h, feats, flds, a) ==
    IF a.shared_fields = FALSE
    THEN [x \in Addr |->
            IF \E i \in DOMAIN feats : feats[i].properties = x
            THEN PopulateNone(h[x], flds)
            ELSE h[x]]
    ELSE h

_add_footprints_to_map ==
    LET flds == ResolveFields(heap, fc, args)
        feats == InjectIdFeatures(heap, fc, args)
        h1 == InjectIdHeap(heap, fc, args)
    IN /\ fields' = flds
       /\ fc' = feats
       /\ heap' = PopulateHeap(h1, feats, flds, args)
       /\ SetMap(add_to(Child("geo_json", <<name, " - Footprints">>, <<>>), CurMap))

FootprintsStep ==
    /\ pc = "footprints"
    /\ _add_footprints_to_map
    /\ pc' = "thumbnails"
    /\ UNCHANGED <<kwds, calls, stac, args, name, values, err>>

(* A thumbnail asset counts even without an href *)
HasThumbnailAsset(feat) == feat.assets # "none"

(* lines 325-342: feat.assets["thumbnail"]["href"], KeyError skips the record *)
HasThumbnail(feat) == feat.assets = "href"

ThumbnailOverlays(feats) ==
    SelectSeq([i \in DOMAIN feats |-> i], LAMBDA i : HasThumbnail(feats[i]))

_add_thumbnails_to_map_raises(feats) == Len(ThumbnailOverlays(feats)) = 0

_add_thumbnails_to_map(feats, map, nm) ==
    add_to(Child("feature_group", <<nm, " - Thumbnails">>, ThumbnailOverlays(feats)), map)

ThumbnailsStep ==
    /\ pc = "thumbnails"
    /\ UNCHANGED <<kwds, calls, stac, args, heap, fc, name, values, fields>>
    /\ IF args.thumbnails
       THEN IF _add_thumbnails_to_map_raises(fc)
            THEN Raise("Items do not have thumbnail links.") /\ UNCHANGED m
            ELSE /\ SetMap(_add_thumbnails_to_map(fc, CurMap, name))
                 /\ pc' = "control" /\ err' = err
       ELSE /\ pc' = "control"
            /\ UNCHANGED <<m, lm, err>>

(* The layer control is attached whatever layer_control says *)
WithLayerControlAlways(map, a) == add_to(LayerControl, map)

(* lines 235-240: the layer control, then return m to the caller *)
WithLayerControl(map, a) ==
    IF a.layer_control THEN add_to(LayerControl, map) ELSE map

ControlStep ==
    /\ pc = "control"
    /\ pc' = "done"
    /\ m' = WithLayerControl(CurMap, args)
    /\ lm' = NoMap
    /\ UNCHANGED <<kwds, calls, stac, args, heap, fc, name, values, fields, err>>

---------------------------------------------------------------------------
(* Inputs *)

B == {TRUE, FALSE}

(* A caller-side property dictionary: gsd, eo:cloud_cover and id, each left out *)
(* when its argument is None                                                    *)
Bag(gsd, eo, id) ==
    (IF gsd # None THEN <<<<"gsd", gsd>>>> ELSE <<>>)
    \o (IF eo # None THEN <<<<"eo:cloud_cover", eo>>>> ELSE <<>>)
    \o (IF id # None THEN <<<<"id", id>>>> ELSE <<>>)

RecSet(gsds, eos, ids, assets) ==
    {[properties |-> Bag(g, e, d), assets |-> a] :
        g \in gsds, e \in eos, d \in ids, a \in assets}

ItemsOfLen(recs, n) ==
    {[i \in 1..n |-> [id |-> ItemId(i), collection |-> "planet-disaster-data",
                      properties |-> c[i].properties, assets |-> c[i].assets]] :
        c \in [1..n -> recs]}

LensOf(kind) ==
    CASE kind \in {"Item", "dict"} -> {1}
      [] kind \in {"list", "ItemCollection", "Catalog"} -> 0..MaxItems
      [] OTHER -> {0}

Stacs(kinds, recs) ==
    UNION {UNION {{[kind |-> k, items |-> its] : its \in ItemsOfLen(recs, n)} :
                     n \in LensOf(k)} : k \in kinds}

(* Maps a caller may already hold: none, an empty basemap, the result of an *)
(* earlier explore call                                                     *)
EarlierMap ==
    add_to(LayerControl, add_to(Child("geo_json", <<"OLD", " - Footprints">>, <<>>), _basemap))

ArgSet(over) ==
    {[k \in DOMAIN DefaultArgs |-> IF k \in DOMAIN o THEN o[k] ELSE DefaultArgs[k]] : o \in over}

(* Sequences of explore calls on one map *)
DCalls ==
    [maxCalls |-> MaxCalls,
     maps |-> {NoMap},
     stacs |-> Stacs({"ItemCollection"}, RecSet({0}, {None}, {None}, {"href"})),
     args |-> ArgSet([name : {Arg("DATA 1"), Arg("DATA 2")}, bbox : {NoArg, Arg("bbox")},
                      thumbnails : B, layer_control : B, m : {NoArg, Arg("m")}])]

(* One call: the options that decide what is attached to the map *)
DMap ==
    [maxCalls |-> 1,
     maps |-> {NoMap, _basemap, EarlierMap},
     stacs |-> Stacs({"ItemCollection"}, RecSet({0}, {None}, {None}, {"none", "nohref", "href"})),
     args |-> ArgSet([name : {Arg("LAYER")}, bbox : {NoArg, Arg("bbox")},
                      intersects : {NoArg, Arg("geometry")}, thumbnails : B,
                      prop : {NoArg, Arg("gsd")}, cmap : {NoArg, Arg("notacmap")},
                      force_categorical : B, legend : B, layer_control : B,
                      m : {NoArg, Arg("m")}])]

(* One call: the options that decide what happens to the features *)
DData ==
    [maxCalls |-> 1,
     maps |-> {NoMap},
     stacs |-> Stacs(Kinds, RecSet({None} \cup 0..MaxVal, {None}, {None, CustomId}, {"none"})),
     args |-> ArgSet([name : {NoArg}, prop : {NoArg, Arg("gsd")}, force_categorical : B,
                      legend : B, fields : {NoArg, Arg(<<"gsd">>)}, shared_fields : B,
                      add_id : B])]

(* A caller-side property dictionary with two extension namespaces *)
BagExt(gsd, eo, view, id) ==
    (IF gsd # None THEN <<<<"gsd", gsd>>>> ELSE <<>>)
    \o (IF view # None THEN <<<<"view:off_nadir", view>>>> ELSE <<>>)
    \o (IF eo # None THEN <<<<"eo:cloud_cover", eo>>>> ELSE <<>>)
    \o (IF id # None THEN <<<<"id", id>>>> ELSE <<>>)

RecSetExt(gsds, eos, views, ids) ==
    {[properties |-> BagExt(g, e, v, d), assets |-> "none"] :
        g \in gsds, e \in eos, v \in views, d \in ids}

(* One call: the options that decide which fields the tooltip and popup show *)
DView ==
    [maxCalls |-> 1,
     maps |-> {NoMap},
     stacs |-> Stacs({"list"}, RecSetExt({None, 0}, {None, 0}, {None, 0}, {None, CustomId})),
     args |-> ArgSet([name : {NoArg}, prop : {NoArg, Arg("gsd")},
                      fields : {NoArg, Arg(<<"view:off_nadir", "gsd">>)},
                      extensions : {NoArg, Arg(<<"eo">>)},
                      shared_fields : B, add_id : B])]

(* One call: the options that decide how a footprint is drawn *)
DStyle ==
    [maxCalls |-> 1,
     maps |-> {NoMap},
     stacs |-> Stacs({"list"}, RecSet(0..MaxVal, {None}, {None}, {"none"})),
     args |-> ArgSet([name : {NoArg}, prop : {NoArg, Arg("gsd")}, force_categorical : B,
                      legend : B,
                      style_kwds : {<<>>, <<<<"weight", 2>>>>,
                                    <<<<"color", 7>>, <<"weight", 2>>, <<"fillColor", 8>>>>}])]

(* Item dictionaries as a caller may write them: every field absent (0), None *)
(* (1), an empty container (2) or a non-empty value (3)                        *)
ItemKeys == <<"id", "properties", "geometry", "bbox", "assets">>

FieldValue(c) == IF c = 1 THEN None ELSE IF c = 2 THEN EmptyContainer ELSE 1

RECURSIVE ItemDict(_, _)
ItemDict(c, k) ==
    IF k > Len(ItemKeys) THEN <<>>
    ELSE (IF c[k] = 0 THEN <<>> ELSE <<<<ItemKeys[k], FieldValue(c[k])>>>>) \o ItemDict(c, k + 1)

ItemDicts == {ItemDict(c, 1) : c \in [DOMAIN ItemKeys -> 0..3]}

(* Sequences of calls: highlight_kwds omitted, or a dictionary of the caller's *)
DOpts ==
    [maxCalls |-> MaxCalls,
     maps |-> {NoMap},
     stacs |-> Stacs({"list"}, RecSet({0}, {None}, {None}, {"none", "href"})),
     args |-> ArgSet([name : {NoArg}, thumbnails : B,
                      highlight_kwds : {NoArg, Arg(<<<<"stroke", 0>>>>),
                                        Arg(<<<<"fillOpacity", 90>>, <<"stroke", 0>>>>)}])]

---------------------------------------------------------------------------
(* Specifications *)

InitOf(D) ==
    /\ pc = "idle"
    /\ calls = 0
    /\ stac = NoStac
    /\ args = DefaultArgs
    /\ heap = EmptyHeap
    /\ fc = <<>>
    /\ name = ""
    /\ values = <<>>
    /\ fields = <<>>
    /\ m \in D.maps
    /\ lm = NoMap
    /\ err = ""
    /\ kwds = NoKwds

Steps == PropStep \/ BoundsStep \/ FootprintsStep \/ ThumbnailsStep \/ ControlStep

Init == InitOf(DMap)

Next == Call(DMap) \/ Steps

Spec == Init /\ [][Next]_vars

InitCalls == InitOf(DCalls)

NextCalls == Call(DCalls) \/ Steps

SpecCalls == InitCalls /\ [][NextCalls]_vars

InitData == InitOf(DData)

NextData == Call(DData) \/ Steps

SpecData == InitData /\ [][NextData]_vars

(* _set_continuous_colors on its own: one feature of value v, a ramp of n colours *)
RampLens == (1..MaxRamp) \cup {N_COLORS}

IdxApply ==
    /\ pc = "idle"
    /\ \E v \in 0..MaxRampVal, lo \in 0..MaxRampVal, hi \in 0..MaxRampVal, n \in RampLens :
         LET s == [kind |-> "dict",
                   items |-> <<[id |-> ItemId(1), collection |-> "planet-disaster-data",
                                properties |-> Bag(v, None, None), assets |-> "none"]>>]
             cp == deepcopy(CallerHeap(s), get_items(s))
             feats == STACFeatureCollection(cp.items)
         IN /\ stac' = s
            /\ args' = [DefaultArgs EXCEPT !.prop = Arg("gsd"), !.vmin = Arg(lo), !.vmax = Arg(hi)]
            /\ fc' = feats
            /\ values' = get_values(cp.heap, feats, "gsd")
            /\ heap' = _set_continuous_colors(cp.heap, feats, "gsd",
                                              get_cmap("RdBu_r", n), lo, hi)
    /\ pc' = "done"
    /\ calls' = calls + 1
    /\ UNCHANGED <<name, fields, m, lm, err, kwds>>

InitIdx == InitOf(DData)

NextIdx == IdxApply

SpecIdx == InitIdx /\ [][NextIdx]_vars

InitView == InitOf(DView)

NextView == Call(DView) \/ Steps

SpecView == InitView /\ [][NextView]_vars

InitStyle == InitOf(DStyle)

NextStyle == Call(DStyle) \/ Steps

SpecStyle == InitStyle /\ [][NextStyle]_vars

(* STACFeature.__init__ on its own: one item dictionary, one feature *)
InitFeature ==
    /\ pc = "idle"
    /\ calls = 0
    /\ stac \in {[kind |-> "dict", items |-> <<d>>] : d \in ItemDicts}
    /\ args = DefaultArgs
    /\ heap = EmptyHeap
    /\ fc = <<>>
    /\ name = ""
    /\ values = <<>>
    /\ fields = <<>>
    /\ m = NoMap
    /\ lm = NoMap
    /\ err = ""
    /\ kwds = NoKwds

FeatureApply ==
    /\ pc = "idle"
    /\ pc' = "done"
    /\ fc' = <<STACFeature__init__(stac.items[1])>>
    /\ calls' = calls + 1
    /\ UNCHANGED <<stac, args, heap, name, values, fields, m, lm, err, kwds>>

NextFeature == FeatureApply

SpecFeature == InitFeature /\ [][NextFeature]_vars

InitOpts == InitOf(DOpts)

NextOpts == Call(DOpts) \/ Steps

SpecOpts == InitOpts /\ [][NextOpts]_vars

---------------------------------------------------------------------------
(* Properties *)

Children(map) == Range(map.children)

NumControls(map) == Len(SelectSeq(map.children, IsLayerControl))

IsLayer(c) == c.kind \in {"geo_json", "feature_group"}

Layers(map) == SelectSeq(map.children, IsLayer)

Footprints(nm) == Child("geo_json", <<nm, " - Footprints">>, <<>>)

IsPrefix(s, t) == Len(s) <= Len(t) /\ \A i \in DOMAIN s : s[i] = t[i]

(* The layers this call has attached to the map it works on *)
CallLayers(map) == SelectSeq(map.children, LAMBDA c : IsLayer(c) /\ c.name[1] = name)

(* C1: after two successful explore calls on one map with different names and  *)
(* the layer control enabled, the map lists the footprint layers of both calls *)
(* and holds exactly one layer control: a call on an existing map keeps every  *)
(* layer the map had, and a finished call has its own footprint layer and,     *)
(* with layer_control, exactly one layer control.                              *)
C1_ExistingMap ==
    /\ [](pc = "done" =>
            /\ Footprints(name) \in Children(m)
            /\ args.layer_control => NumControls(m) = 1)
    /\ [][args'.m # NoArg => IsPrefix(Layers(m), Layers(m'))]_vars

C1_Witness ==
    /\ pc = "done" /\ calls = 2 /\ args.m # NoArg /\ args.layer_control
    /\ name = "DATA 2"
    /\ Footprints("DATA 1") \in Children(m)
    /\ Footprints("DATA 2") \in Children(m)
    /\ NumControls(m) = 1

(* C2: the layer control is attached last.  While a call is attaching layers *)
(* the map it works on holds no layer control (one that an existing map had  *)
(* has been detached), and a finished call leaves exactly one layer control, *)
(* as the last child, when layer_control is set, and none otherwise.         *)
C2_ControlLast ==
    /\ Running => NumControls(CurMap) = 0
    /\ pc = "done" =>
         /\ NumControls(m) = (IF args.layer_control THEN 1 ELSE 0)
         /\ args.layer_control => IsLayerControl(m.children[Len(m.children)])

C2_Witness ==
    /\ pc = "thumbnails" /\ args.m # NoArg /\ args.layer_control
    /\ Footprints("OLD") \in Children(m)
    /\ Footprints(name) \in Children(m)
    /\ NumControls(m) = 0

Both == args.bbox # NoArg /\ args.intersects # NoArg

Ended == pc \in {"done", "raised"}

(* Colour-coding (lines 172-208) raises: an unknown colormap, or a prop that *)
(* some item lacks                                                           *)
PropFails ==
    /\ args.prop # NoArg
    /\ \/ (args.cmap # NoArg /\ args.cmap[1] \notin ValidCmaps)
       \/ \E i \in DOMAIN stac.items : ~Has(stac.items[i].properties, args.prop[1])

(* C3 as claimed: with both bbox and intersects, explore raises the conflict *)
(* error, with no layer added, whatever the other options are.               *)
C3_Claimed ==
    (Both /\ Ended /\ fc # <<>>) =>
        /\ pc = "raised"
        /\ err = "Cannot specify both"
        /\ CallLayers(m) = <<>>

(* C3 amended: with both bbox and intersects, explore raises with no layer   *)
(* added; the error is the conflict error unless colour-coding, which runs   *)
(* before the check, raises first.                                           *)
C3_ConflictNoLayer ==
    (Both /\ Ended /\ fc # <<>>) =>
        /\ pc = "raised"
        /\ CallLayers(m) = <<>>
        /\ IF PropFails
           THEN err \in {"Unrecognized cmap", "TypeError", "KeyError"}
           ELSE err = "Cannot specify both"

C3_Witness ==
    /\ pc = "raised" /\ Both /\ err = "Cannot specify both"
    /\ args.m # NoArg /\ args.prop # NoArg /\ args.legend
    /\ \E c \in Children(m) : c.kind = "color_map" /\ c.name[1] = name
    /\ CallLayers(m) = <<>>

(* C4: a call whose input normalises to no record raises "No STAC items were *)
(* found." before anything else is done: no map is created and the caller's  *)
(* map is what it was.                                                       *)
C4_EmptyInput ==
    [][(calls' = calls + 1 /\ ~get_items_raises(stac') /\ Len(stac'.items) = 0) =>
          /\ pc' = "raised"
          /\ err' = "No STAC items were found."
          /\ m' = m
          /\ lm' = NoMap
          /\ fc' = <<>>]_vars

C4_Witness ==
    /\ pc = "raised" /\ err = "No STAC items were found."
    /\ args.m # NoArg
    /\ m = EarlierMap

PropAbsentEverywhere ==
    /\ args.prop # NoArg
    /\ stac.items # <<>>
    /\ \A i \in DOMAIN stac.items : ~Has(stac.items[i].properties, args.prop[1])

(* C5 as claimed: get_values(prop) on a collection none of whose features has *)
(* prop raises UnknownProperty at the point of value extraction instead of    *)
(* returning a sequence.                                                      *)
C5_Claimed ==
    (PropAbsentEverywhere /\ fc # <<>> /\ pc \notin {"idle", "prop"}) =>
        /\ pc = "raised"
        /\ err = "UnknownProperty"
        /\ values = <<>>

FloorDiv(x, y) == IF y > 0 THEN x \div y ELSE (-x) \div (-y)

ExpectedIdx(v, lo, hi, n) ==
    IF hi # lo
    THEN LET q == FloorDiv((v - lo) * (n - 1), hi - lo)
         IN IF q < 0 THEN 0 ELSE IF q > n - 1 THEN n - 1 ELSE q
    ELSE 0

Continuous ==
    /\ args.prop # NoArg
    /\ values # <<>>
    /\ ~args.force_categorical
    /\ IsNumeric(values)

Vmin == IF args.vmin # NoArg THEN args.vmin[1] ELSE MinOf(values)

Vmax == IF args.vmax # NoArg THEN args.vmax[1] ELSE MaxOf(values)

ColorOf(i) == Lookup(Props(heap, fc[i]), "__stacmap_color")

IsColored(i) == Has(Props(heap, fc[i]), "__stacmap_color")

(* C6: the colour of a continuously coloured feature of value v is entry       *)
(* clamp(floor((v - vmin) / (vmax - vmin) * (n - 1)), 0, n - 1) of the n-colour *)
(* ramp, entry 0 when vmax = vmin; so vmin maps to 0, vmax to n - 1, values     *)
(* outside the range to the nearest end, and the index is always in the ramp.   *)
C6_ColorIndex ==
    Continuous =>
        \A i \in DOMAIN fc :
            IsColored(i) =>
                LET n == ColorOf(i) \div 1000
                    idx == ColorOf(i) % 1000
                    v == values[i]
                IN /\ idx = ExpectedIdx(v, Vmin, Vmax, n)
                   /\ idx \in 0..(n - 1)
                   /\ Vmin = Vmax => idx = 0
                   /\ (Vmin # Vmax /\ v = Vmin) => idx = 0
                   /\ (Vmin # Vmax /\ v = Vmax) => idx = n - 1
                   /\ (Vmin < Vmax /\ v < Vmin) => idx = 0
                   /\ (Vmin < Vmax /\ v > Vmax) => idx = n - 1

C6_Witness ==
    /\ pc = "done" /\ Continuous
    /\ values = <<1>> /\ Vmin = 2 /\ Vmax = 5
    /\ ColorOf(1) = ColorCode(N_COLORS, 1)

Categorical ==
    /\ args.prop # NoArg
    /\ values # <<>>
    /\ (args.force_categorical \/ ~IsNumeric(values))

AfterProp == pc \in {"bounds", "footprints", "thumbnails", "control", "done"}

(* The map the call works on, or has returned *)
TheMap == IF pc = "done" THEN m ELSE CurMap

(* Position of v among the distinct values in increasing order *)
Rank(v) == 1 + Cardinality({w \in Range(values) : w < v})

(* C7: with k distinct values of prop, k colours are resolved, every feature   *)
(* has the colour at the position of its value among the distinct values in    *)
(* increasing order, and the legend (when enabled) has exactly k rows, row i   *)
(* pairing the i-th distinct value with the i-th colour.                       *)
C7_CategoricalLegend ==
    (Categorical /\ AfterProp) =>
        LET k == Cardinality(Range(values))
        IN /\ \A i \in DOMAIN fc : ColorOf(i) = ColorCode(k, Rank(values[i]))
           /\ IF args.legend
              THEN /\ Len(TheMap.root) = 1
                   /\ TheMap.root[1].caption = <<name, args.prop[1]>>
                   /\ Len(TheMap.root[1].rows) = k
                   /\ \A v \in Range(values) :
                        TheMap.root[1].rows[Rank(v)] = <<v, ColorCode(k, Rank(v))>>
              ELSE TheMap.root = <<>>

C7_Witness ==
    /\ pc = "done" /\ Categorical /\ args.legend
    /\ values = <<1, 0>>
    /\ Len(m.root[1].rows) = 2

(* C8: the property dictionaries the caller passed are, at every point of the *)
(* call and after it, what they were when the call was made.                  *)
C8_CallerData ==
    \A i \in DOMAIN stac.items : heap[i] = stac.items[i].properties

C8_Witness ==
    /\ pc = "done" /\ stac.kind = "list" /\ Len(fc) = 2
    /\ \A i \in DOMAIN fc : IsColored(i)
    /\ \E i \in DOMAIN fc : Has(Props(heap, fc[i]), "id") /\ Lookup(Props(heap, fc[i]), "id") = None

AfterFootprints == pc \in {"thumbnails", "control", "done"}

Orig(i) == stac.items[i].properties

Now(i) == Props(heap, fc[i])

IdKept(i) ==
    /\ (args.add_id /\ ~Has(Orig(i), "id")) => Now(i)[1] = <<"id", stac.items[i].id>>
    /\ Has(Orig(i), "id") => Lookup(Now(i), "id") = Lookup(Orig(i), "id")
    /\ Cardinality({j \in DOMAIN Now(i) : Now(i)[j][1] = "id"}) <= 1

(* C9 as claimed: with add_id every feature without an id property gains, as *)
(* first property, an id equal to the record's identifier, an existing id is *)
(* kept, and without add_id no id property is added to any feature.          *)
C9_Claimed ==
    AfterFootprints =>
        \A i \in DOMAIN fc :
            /\ IdKept(i)
            /\ (~args.add_id /\ ~Has(Orig(i), "id")) => ~Has(Now(i), "id")

(* C9 amended: ... without add_id the identifier is never injected: a feature *)
(* without an id property still has none, unless all-properties mode binds a  *)
(* field list that contains id, which populates it with None.                 *)
C9_AutoId ==
    AfterFootprints =>
        \A i \in DOMAIN fc :
            /\ IdKept(i)
            /\ (~args.add_id /\ ~Has(Orig(i), "id")) =>
                  IF ~args.shared_fields /\ "id" \in Range(fields)
                  THEN Lookup(Now(i), "id") = None
                  ELSE ~Has(Now(i), "id")

C9_Witness ==
    /\ pc = "done" /\ args.add_id /\ Len(fc) = 2
    /\ ~Has(Orig(1), "id") /\ Now(1)[1] = <<"id", ItemId(1)>>
    /\ Has(Orig(2), "id") /\ Lookup(Now(2), "id") = CustomId

Usable == {i \in DOMAIN stac.items : stac.items[i].assets = "href"}

ThumbLayers(map) ==
    SelectSeq(map.children,
              LAMBDA c : c.kind = "feature_group" /\ c.name = <<name, " - Thumbnails">>)

(* C10: with thumbnails requested, a call that gets past the thumbnails step  *)
(* has attached one "<name> - Thumbnails" group holding exactly one overlay   *)
(* per record with a thumbnail href, in order, the other records skipped; the *)
(* call raises "do not have thumbnail links" exactly when no record has one,  *)
(* and then no thumbnails layer is attached.                                  *)
C10_Thumbnails ==
    /\ (args.thumbnails /\ pc \in {"control", "done"}) =>
          /\ Usable # {}
          /\ Len(ThumbLayers(TheMap)) = 1
          /\ LET ov == ThumbLayers(TheMap)[1].items
             IN /\ Range(ov) = Usable
                /\ Len(ov) = Cardinality(Usable)
                /\ \A j \in 1..(Len(ov) - 1) : ov[j] < ov[j + 1]
    /\ (pc = "raised" /\ err = "Items do not have thumbnail links.") =>
          /\ args.thumbnails
          /\ Usable = {}
          /\ ThumbLayers(m) = <<>>
    /\ ~args.thumbnails => ThumbLayers(TheMap) = <<>>

C10_Witness ==
    /\ pc = "done" /\ args.thumbnails /\ Len(stac.items) = 2
    /\ stac.items[1].assets = "nohref" /\ stac.items[2].assets = "href"
    /\ ThumbLayers(m)[1].items = <<2>>

(* C11: the shared properties are a subset of all properties; a key absent  *)
(* from even one feature is excluded from the shared properties and included *)
(* in all properties; neither list holds the reserved colour key, also after *)
(* colours have been assigned.                                               *)
C11_SharedSubsetAll ==
    fc # <<>> =>
        LET shared == Range(get_shared_props(heap, fc))
            all == Range(get_all_props(heap, fc))
        IN /\ shared \subseteq all
           /\ \A k \in AllKeys(heap, fc) \ HIDDEN_PROPS :
                 /\ k \in all
                 /\ k \in shared <=> \A i \in DOMAIN fc : Has(Now(i), k)
           /\ "__stacmap_color" \notin shared \cup all

C11_Witness ==
    /\ pc = "bounds" /\ Len(fc) = 2
    /\ \A i \in DOMAIN fc : IsColored(i)
    /\ Has(Now(1), "id") /\ ~Has(Now(2), "id")
    /\ get_shared_props(heap, fc) = <<"eo:cloud_cover", "gsd">>
    /\ "id" \in Range(get_all_props(heap, fc))

(* Unprefixed keys first, colon-namespaced keys after, each group in string order *)
KeyBefore(a, b) ==
    \/ ~HasColon(a) /\ HasColon(b)
    \/ HasColon(a) = HasColon(b) /\ IndexOf(KeyOrder, a) < IndexOf(KeyOrder, b)

ExtensionsLast(s) == \A i \in DOMAIN s : \A j \in DOMAIN s : i < j => KeyBefore(s[i], s[j])

SameKeys == \A i \in DOMAIN fc : Keys(Now(i)) = Keys(Now(1))

(* C12 as claimed: the shared and the all properties are both listed with the *)
(* unprefixed keys first in lexicographic order and the colon-namespaced keys *)
(* after them in lexicographic order, so a collection whose features all have *)
(* the same keys gets the same sequence from both.                            *)
C12_Claimed ==
    fc # <<>> =>
        /\ ExtensionsLast(get_all_props(heap, fc))
        /\ ExtensionsLast(get_shared_props(heap, fc))
        /\ SameKeys => get_shared_props(heap, fc) = get_all_props(heap, fc)

ValuesRead == args.prop # NoArg /\ fc # <<>> /\ pc \notin {"idle", "prop"}

PartiallyPopulated ==
    /\ args.prop # NoArg
    /\ \E i \in DOMAIN stac.items : Has(Orig(i), args.prop[1])
    /\ \E i \in DOMAIN stac.items : ~Has(Orig(i), args.prop[1])

(* C13: get_values(prop) does not raise on a partially populated property: it  *)
(* returns one entry per feature, in collection order, the feature's value     *)
(* where the feature has the property and None where it has not.               *)
C13_ValuesPartial ==
    ValuesRead =>
        /\ err # "UnknownProperty"
        /\ Len(values) = Len(stac.items)
        /\ \A i \in DOMAIN stac.items :
              values[i] = IF Has(Orig(i), args.prop[1])
                          THEN Lookup(Orig(i), args.prop[1])
                          ELSE None

C13_Witness ==
    /\ ValuesRead /\ PartiallyPopulated
    /\ values = <<1, None>>

(* C14: for every supported input variant get_items returns one dictionary per *)
(* leaf item, in input / traversal order, a single plain record as a list of    *)
(* that very record; the feature collection built from the list has the same    *)
(* length and the same order.                                                   *)
C14_CountOrder ==
    ~get_items_raises(stac) =>
        /\ Len(get_items(stac)) = Len(stac.items)
        /\ \A i \in DOMAIN stac.items :
              /\ get_items(stac)[i].id = stac.items[i].id
              /\ get_items(stac)[i].assets = stac.items[i].assets
              /\ CallerHeap(stac)[get_items(stac)[i].properties] = stac.items[i].properties
        /\ stac.kind \in {"Item", "dict"} => Len(get_items(stac)) = 1
        /\ Len(fc) = Len(stac.items)
        /\ \A i \in DOMAIN fc :
              /\ fc[i].id = stac.items[i].id
              /\ fc[i].assets = stac.items[i].assets

C14_Witness ==
    /\ pc = "done" /\ stac.kind = "Catalog"
    /\ Len(get_items(stac)) = 2
    /\ fc[1].id = ItemId(1) /\ fc[2].id = ItemId(2)
    /\ Orig(1) # Orig(2)

(* C15: with a colour-coding property the style of a feature has color and   *)
(* fillColor equal to the feature's reserved colour, whatever style_kwds says *)
(* for those keys, and every other key of style_kwds with its value; without  *)
(* a property the style is style_kwds.                                        *)
C15_StyleFunction ==
    AfterFootprints =>
        \A i \in DOMAIN fc :
            LET st == style_function(args, heap, fc[i])
                user == args.style_kwds
            IN IF args.prop # NoArg
               THEN /\ Lookup(st, "color") = ColorOf(i)
                    /\ Lookup(st, "fillColor") = ColorOf(i)
                    /\ Keys(st) = Keys(user) \cup {"color", "fillColor"}
                    /\ Len(st) = Cardinality(Keys(st))
                    /\ \A k \in Keys(user) \ {"color", "fillColor"} :
                          Lookup(st, k) = Lookup(user, k)
               ELSE st = user

C15_Witness ==
    /\ pc = "done" /\ args.prop # NoArg
    /\ Has(args.style_kwds, "color") /\ Lookup(args.style_kwds, "color") = 7
    /\ IsColor(Lookup(style_function(args, heap, fc[1]), "color"))
    /\ Lookup(style_function(args, heap, fc[1]), "weight") = 2

(* The collection as built from the caller's data, before the call changes it *)
CallerFeatures == STACFeatureCollection(get_items(stac))

BaseList ==
    IF args.fields # NoArg THEN args.fields[1]
    ELSE IF args.shared_fields THEN get_shared_props(CallerHeap(stac), CallerFeatures)
    ELSE get_all_props(CallerHeap(stac), CallerFeatures)

WithId == IF args.add_id THEN <<"id">> \o BaseList ELSE BaseList

Allowed(f) ==
    \/ args.extensions = NoArg
    \/ ~HasColon(f)
    \/ Namespace(f) \in Range(args.extensions[1])

(* C16: the bound field list is the explicit fields, else all properties      *)
(* (shared_fields false) or the shared properties (shared_fields true), with  *)
(* id prepended when add_id, and with an extension filter exactly the fields  *)
(* without a colon prefix (id included) and those whose prefix is allowed, in *)
(* their original relative order.                                             *)
C16_FieldList ==
    AfterFootprints =>
        /\ fields = SelectSeq(WithId, Allowed)
        /\ args.add_id => fields # <<>> /\ fields[1] = "id"
        /\ args.extensions = NoArg => fields = WithId
        /\ \A f \in Range(WithId) : f \in Range(fields) <=> Allowed(f)

C16_Witness ==
    /\ pc = "done" /\ args.add_id /\ args.fields = NoArg /\ ~args.shared_fields
    /\ args.extensions = Arg(<<"eo">>)
    /\ \E i \in DOMAIN stac.items : Has(Orig(i), "view:off_nadir")
    /\ fields = <<"id", "gsd", "eo:cloud_cover">>

(* C17 as claimed: when prop is present on some features and missing on     *)
(* others, explore still completes, and every feature, the ones missing the  *)
(* property included, has a reserved colour once the colours are assigned.   *)
C17_Claimed ==
    PartiallyPopulated =>
        /\ pc # "raised"
        /\ AfterProp => \A i \in DOMAIN fc : IsColored(i)

(* C18: in all-properties mode (shared_fields false), once the footprint      *)
(* layer and its tooltip / popup are built, every field of the bound field     *)
(* list is a key of every feature's properties: a field the feature lacked is  *)
(* None (the injected id excepted) and the values it had are unchanged.        *)
C18_BoundFieldsPresent ==
    (AfterFootprints /\ ~args.shared_fields) =>
        \A i \in DOMAIN fc :
            /\ \A f \in Range(fields) :
                  /\ Has(Now(i), f)
                  /\ Lookup(Now(i), f) =
                        IF Has(Orig(i), f) THEN Lookup(Orig(i), f)
                        ELSE IF f = "id" /\ args.add_id THEN stac.items[i].id
                        ELSE None
            /\ \A k \in Keys(Orig(i)) :
                  Has(Now(i), k) /\ Lookup(Now(i), k) = Lookup(Orig(i), k)

C18_Witness ==
    /\ pc = "done" /\ ~args.shared_fields /\ Len(fc) = 2
    /\ "view:off_nadir" \in Range(fields)
    /\ ~Has(Orig(1), "view:off_nadir") /\ Lookup(Now(1), "view:off_nadir") = None
    /\ Has(Orig(2), "view:off_nadir") /\ Lookup(Now(2), "view:off_nadir") = 0

(* C19 as claimed: the properties, geometry and assets of a feature are never *)
(* None: each is an empty container when the item dictionary lacks the field,  *)
(* and keeps being a container when the item carries the field as None.        *)
C19_Claimed ==
    pc = "done" =>
        \A k \in {"properties", "geometry", "assets"} :
            /\ fc[1][k] # None
            /\ ~Has(stac.items[1], k) => fc[1][k] = EmptyContainer

(* C20 as claimed: when explore raises on a map the caller passed, the map   *)
(* has exactly the children it had before the call: its layer control is     *)
(* still attached and no legend, bounds, footprints or thumbnails layer of   *)
(* the failed call has been added.  (The map a caller passes to the single   *)
(* call of Spec is the empty basemap or the result of an earlier call.)      *)
C20_Claimed ==
    (pc = "raised" /\ args.m # NoArg) =>
        /\ m \in {_basemap, EarlierMap}
        /\ CallLayers(m) = <<>>
        /\ m.root = <<>>

(* C21 as claimed: after any sequence of explore calls the dictionary the    *)
(* caller passed as highlight_kwds has the keys and values it had when the    *)
(* call was made, and the shared default dictionary is still empty, so a call *)
(* that omits the option sees the defaults the first call saw.                *)
C21_Claimed ==
    /\ kwds.shared = <<>>
    /\ args.highlight_kwds # NoArg => kwds.caller = args.highlight_kwds[1]

====
